---- MODULE Spec2Model ----
(***************************************************************************)
(* fastProcesses: the execution orchestrator (api/manager.py), the queue   *)
(* side worker (worker/celery_app.py), the fingerprint (core/models.py)    *)
(* and the job/result cache (core/cache.py).                               *)
(*                                                                         *)
(* Strings of the program are modelled as sequences of string tokens, so   *)
(* that f"{prefix}:{key}" is a concatenation and a glob "job:*" is a       *)
(* prefix match.  Timestamps and links of a job record are left out.       *)
(***************************************************************************)
EXTENDS Integers, Sequences, FiniteSets, TLC

\* number of execute_process calls that get as far as the cache lookup
MaxCalls == 2
\* largest number of entries of an inputs mapping drawn by the fingerprint specification
MaxInputs == 2

VARIABLES
    registry,   \* redis hash "process_registry": process id -> process data
    store,      \* redis keys under the cache prefix: full key -> stored JSON value
    tasks,      \* celery: tasks[i] is the task with id ToString(i)
    calls,      \* execute_process invocations of the manager, in order of arrival
    execLog,    \* every invocation of a process's execute: <<class_path, digest>>
    resp,       \* what the step just taken returned to its API caller
    fpTask,     \* fingerprint specification: two CalculationTasks
    fpKey       \* fingerprint specification: their celery_key, once computed

vars == <<registry, store, tasks, calls, execLog, resp, fpTask, fpKey>>

(***************************************************************************)
(* JSON values                                                             *)
(***************************************************************************)
Str(s) == [type |-> "string", repr |-> s, items |-> <<>>]
Num(s) == [type |-> "number", repr |-> s, items |-> <<>>]
Bool(s) == [type |-> "boolean", repr |-> s, items |-> <<>>]
\* a list: items is the sequence of its elements' repr
Arr(items) == [type |-> "array", repr |-> "", items |-> items]
\* a nested mapping: items is a sequence of <<name, repr>> in insertion order
Obj(items) == [type |-> "object", repr |-> "", items |-> items]

\* Python's order on the str keys the model uses
KeyOrder == <<"a", "b", "flag", "n", "text", "x", "y">>

Rank(k) == CHOOSE i \in 1..Len(KeyOrder) : KeyOrder[i] = k

RECURSIVE InsertByKey(_, _)
InsertByKey(pair, sorted) ==
    IF sorted = <<>> THEN <<pair>>
    ELSE IF Rank(pair[1]) <= Rank(Head(sorted)[1])
         THEN <<pair>> \o sorted
         ELSE <<Head(sorted)>> \o InsertByKey(pair, Tail(sorted))

RECURSIVE SortKeys(_)
SortKeys(pairs) ==
    IF pairs = <<>> THEN <<>>
    ELSE InsertByKey(Head(pairs), SortKeys(Tail(pairs)))

\* the order json.dumps writes a mapping's entries in: by key with sort_keys, else as inserted
Ordered(pairs, sort_keys) == IF sort_keys THEN SortKeys(pairs) ELSE pairs

\* json.dumps of a nested mapping's entries, already ordered
RECURSIVE DumpAtoms(_)
DumpAtoms(pairs) ==
    IF pairs = <<>> THEN <<>>
    ELSE <<Head(pairs)[1], ":", Head(pairs)[2], ",">> \o DumpAtoms(Tail(pairs))

DumpValue(v, sort_keys) ==
    IF v.type = "object"
    THEN <<"{">> \o DumpAtoms(Ordered(v.items, sort_keys)) \o <<"}">>
    ELSE <<v.repr>>

RECURSIVE DumpPairs(_, _)
DumpPairs(pairs, sort_keys) ==
    IF pairs = <<>> THEN <<>>
    ELSE <<Head(pairs)[1], ":">> \o DumpValue(Head(pairs)[2], sort_keys) \o <<",">>
         \o DumpPairs(Tail(pairs), sort_keys)

\* json.dumps(mapping, sort_keys=...): with sort_keys the keys are sorted at every level
json_dumps(pairs, sort_keys) ==
    <<"{">> \o DumpPairs(Ordered(pairs, sort_keys), sort_keys) \o <<"}">>

\* hashlib.sha256(...).hexdigest(): collision free, so the digest stands for its preimage
sha256_hexdigest(text) == text

(***************************************************************************)
(* CalculationTask                                                         *)
(***************************************************************************)
\* outputs is List[str] | None: given = FALSE stands for None
NoOutputs == [given |-> FALSE, names |-> <<>>]
Outputs(names) == [given |-> TRUE, names |-> names]

CalculationTask(inputs, outputs, response) ==
    [inputs |-> inputs, outputs |-> outputs, response |-> response]

hash_dict_unsorted(task) == sha256_hexdigest(json_dumps(task.inputs, FALSE))

hash_dict_all_fields(task) ==
    sha256_hexdigest(json_dumps(task.inputs, TRUE) \o task.outputs.names \o <<task.response>>)

hash_dict(task) == sha256_hexdigest(json_dumps(task.inputs, TRUE))

celery_key(task) == hash_dict(task)

(***************************************************************************)
(* Process implementations (third-party classes) and the registry          *)
(***************************************************************************)
None == "None"
Null == [type |-> "null", repr |-> "null", items |-> <<>>]

\* value of name in a mapping given as a sequence of pairs; Null when absent
RECURSIVE Lookup(_, _)
Lookup(pairs, name) ==
    IF pairs = <<>> THEN Null
    ELSE IF Head(pairs)[1] = name THEN Head(pairs)[2]
         ELSE Lookup(Tail(pairs), name)

Names(pairs) == {pairs[i][1] : i \in 1..Len(pairs)}

\* the classes pydoc.locate can import in this deployment, with their process_description
ProcessInput(name, minOccurs, type) == [name |-> name, minOccurs |-> minOccurs, type |-> type]

\* coroutine: execute is declared "async def" (as BaseProcess declares it) or plain "def"
Classes ==
    [procs_Upper |->
        [inputs  |-> <<ProcessInput("text", 1, "string"), ProcessInput("n", 0, "number")>>,
         outputs |-> <<"result">>, coroutine |-> TRUE],
     procs_Echo |->
        [inputs  |-> <<ProcessInput("text", 1, "string")>>,
         outputs |-> <<"result", "extra">>, coroutine |-> FALSE],
     procs_Pair |->
        [inputs  |-> <<ProcessInput("a", 1, "string"), ProcessInput("b", 1, "string"),
                       ProcessInput("flag", 0, "boolean")>>,
         outputs |-> <<"result">>, coroutine |-> TRUE],
     procs_Silent |->
        [inputs  |-> <<ProcessInput("text", 1, "string")>>,
         outputs |-> <<>>, coroutine |-> TRUE],
     procs_Shout |->
        [inputs  |-> <<ProcessInput("text", 1, "string")>>,
         outputs |-> <<"result", "extra">>, coroutine |-> FALSE],
     procs_Fail |->
        [inputs  |-> <<ProcessInput("text", 1, "string")>>,
         outputs |-> <<"result">>, coroutine |-> FALSE]]

\* asyncio.iscoroutinefunction(process.execute)
iscoroutinefunction(class_path) == Classes[class_path].coroutine

UpperCase(repr) == IF repr = "\"abc\"" THEN "\"ABC\"" ELSE repr

\* process.execute(inputs) raises: procs_Fail does on every input
execute_raises(class_path, inputs) == class_path = "procs_Fail"

\* process.execute(inputs) of each class: a pure function of the inputs
execute(class_path, inputs) ==
    IF class_path = "procs_Upper"
    THEN Obj(<< <<"result", UpperCase(Lookup(inputs, "text").repr)>> >>)
    ELSE Obj(<< <<"result", Lookup(inputs, "text").repr>>, <<"extra", class_path>> >>)

\* the methods class ProcessRegistry defines
ProcessRegistryMethods ==
    {"register_process", "get_process_ids", "has_process", "get_process"}

has_process(process_id) == process_id \in DOMAIN registry

\* pydoc.locate(class_path): the class, or nothing when it cannot be imported
locate(class_path) == IF class_path \in DOMAIN Classes THEN class_path ELSE None

\* a get_process that reports an entry whose class cannot be located as not found
get_process_unloadable_not_found(process_id) ==
    IF process_id \notin DOMAIN registry \/ locate(registry[process_id].class_path) = None
    THEN [ok |-> FALSE, error |-> "ValueError: not found", cls |-> None]
    ELSE [ok |-> TRUE, error |-> None, cls |-> registry[process_id].class_path]

\* get_process: the instantiated class, or the error it raises
get_process(process_id) ==
    IF process_id \notin DOMAIN registry
    THEN [ok |-> FALSE, error |-> "ValueError: not found", cls |-> None]
    ELSE IF locate(registry[process_id].class_path) = None
         THEN [ok |-> FALSE, error |-> "ProcessClassNotFoundError", cls |-> None]
         ELSE [ok |-> TRUE, error |-> None, cls |-> registry[process_id].class_path]

(***************************************************************************)
(* BaseProcess.validate_inputs / validate_outputs                          *)
(***************************************************************************)
Ok == [ok |-> TRUE, error |-> None, field |-> None, detail |-> <<>>]
Raise(error, field, detail) == [ok |-> FALSE, error |-> error, field |-> field, detail |-> detail]

\* isinstance(value, str) for "string", isinstance(value, (int, float)) for "number"
\* (a bool is an int); any other declared type is not checked
TypeConforms(type, value) ==
    CASE type = "string" -> value.type = "string"
      [] type = "number" -> value.type \in {"number", "boolean"}
      [] OTHER -> TRUE

\* the declared inputs are visited in order; the first failure is raised
RECURSIVE ValidateDeclared(_, _)
ValidateDeclared(declared, inputs) ==
    IF declared = <<>> THEN Ok
    ELSE LET d == Head(declared) IN
         IF d.minOccurs > 0 /\ d.name \notin Names(inputs)
         THEN Raise("ValueError: Missing required input", d.name, <<>>)
         ELSE IF d.name \in Names(inputs) /\ ~TypeConforms(d.type, Lookup(inputs, d.name))
              THEN Raise("ValueError: Invalid type for input", d.name,
                         <<d.type, Lookup(inputs, d.name).type>>)
              ELSE ValidateDeclared(Tail(declared), inputs)

\* a validation that looks at the types of the inputs present and not at what is absent
RECURSIVE ValidateTypesOnly(_, _)
ValidateTypesOnly(declared, inputs) ==
    IF declared = <<>> THEN Ok
    ELSE LET d == Head(declared) IN
         IF d.name \in Names(inputs) /\ ~TypeConforms(d.type, Lookup(inputs, d.name))
         THEN Raise("ValueError: Invalid type for input", d.name,
                    <<d.type, Lookup(inputs, d.name).type>>)
         ELSE ValidateTypesOnly(Tail(declared), inputs)

validate_inputs_types_only(cls, inputs) == ValidateTypesOnly(Classes[cls].inputs, inputs)

validate_inputs(cls, inputs) == ValidateDeclared(Classes[cls].inputs, inputs)

\* an output validation that accepts an omitted selection before looking at the declaration
validate_outputs_omitted_first(cls, outputs) ==
    LET available == Classes[cls].outputs
        availableSet == {available[i] : i \in 1..Len(available)}
        invalid == SelectSeq(outputs.names, LAMBDA o : o \notin availableSet)
    IN  IF ~outputs.given THEN Ok
        ELSE IF available = <<>>
        THEN Raise("ValueError: Process has no defined outputs", None, <<>>)
        ELSE IF invalid # <<>>
             THEN Raise("ValueError: Invalid output identifiers", None, invalid \o <<"|">> \o available)
             ELSE Ok

\* an output validation that reports every requested name once one of them is unknown
validate_outputs_reports_all(cls, outputs) ==
    LET available == Classes[cls].outputs
        availableSet == {available[i] : i \in 1..Len(available)}
    IN  IF available = <<>>
        THEN Raise("ValueError: Process has no defined outputs", None, <<>>)
        ELSE IF ~outputs.given THEN Ok
        ELSE IF \E i \in 1..Len(outputs.names) : outputs.names[i] \notin availableSet
             THEN Raise("ValueError: Invalid output identifiers", None,
                        outputs.names \o <<"|">> \o available)
             ELSE Ok

validate_outputs(cls, outputs) ==
    LET available == Classes[cls].outputs
        availableSet == {available[i] : i \in 1..Len(available)}
        invalid == SelectSeq(outputs.names, LAMBDA o : o \notin availableSet)
    IN  IF available = <<>>
        THEN Raise("ValueError: Process has no defined outputs", None, <<>>)
        ELSE IF ~outputs.given THEN Ok
        ELSE IF invalid # <<>>
             THEN Raise("ValueError: Invalid output identifiers", None, invalid \o <<"|">> \o available)
             ELSE Ok

(***************************************************************************)
(* Cache (core/cache.py) over the redis keys of `store`                    *)
(***************************************************************************)
key_prefix == <<"process_results">>

make_key(key) == key_prefix \o <<":">> \o key

\* a job key without the "job:" part
job_key_bare(job_id) ==
    <<job_id>>

job_key(job_id) ==
    <<"job", ":", job_id>>

Cache_get(st, key) == IF make_key(key) \in DOMAIN st THEN st[make_key(key)] ELSE Null

\* a put that evicts the job records stored before
Cache_put_evicting_jobs(st, key, value) ==
    [k \in {j \in DOMAIN st : j[3] # "job"} \cup {make_key(key)} |->
        IF k = make_key(key) THEN value ELSE st[k]]

Cache_put(st, key, value) ==
    [k \in DOMAIN st \cup {make_key(key)} |-> IF k = make_key(key) THEN value ELSE st[k]]

\* Python truthiness of a value read back from the cache
Truthy(v) ==
    CASE v.type = "null"   -> FALSE
      [] v.type = "object" -> v.items # <<>>
      [] v.type = "string" -> v.repr # "\"\""
      [] v.type = "number" -> v.repr # "0"
      [] v.type = "boolean" -> v.repr # "false"
      [] v.type = "array" -> v.items # <<>>
      [] OTHER -> TRUE

(***************************************************************************)
(* Pydantic models written to the store and returned to the caller         *)
(***************************************************************************)
JobStatusInfoFields == {"jobID", "status", "type", "processID", "message", "progress"}

\* model_validate(dict): declared fields kept (absent ones None), other keys ignored
JobStatusInfo(kw) ==
    [f \in JobStatusInfoFields |-> IF f \in DOMAIN kw THEN kw[f] ELSE None]

\* the values of the JobStatusCode members the manager uses
JobStatusCode_ACCEPTED == "accepted"
JobStatusCode_SUCCESSFUL == "successful"

ProcessExecResponseFields == {"status", "jobID", "type"}

\* ProcessExecResponse(**kw): declared fields kept, other keyword arguments ignored
ProcessExecResponse(kw) == [f \in ProcessExecResponseFields \cap DOMAIN kw |-> kw[f]]

(***************************************************************************)
(* Celery: send_task, the result backend, AsyncResult                      *)
(***************************************************************************)
Payload(kind, task, key, result) ==
    [kind |-> kind, inputs |-> task.inputs, outputs |-> task.outputs,
     response |-> task.response, celery_key |-> key, result |-> result]

NoTask == CalculationTask(<<>>, NoOutputs, None)

\* calculation_task.model_dump(): the fields and the computed field celery_key, a mapping
model_dump(task) == Payload("mapping", task, celery_key(task), Null)

\* json.dumps(calculation_task.model_dump(include={inputs, outputs, response})): a str
serialized_data(task) == Payload("json_str", task, <<>>, Null)

Retval(status, result) == [status |-> status, result |-> result]

\* send_task appends a message to the broker; the new task's id is ToString of its index
send_task(queue, name, process_id, payload) ==
    Append(queue, [name |-> name, process_id |-> process_id, payload |-> payload,
                   consumed |-> FALSE, state |-> "PENDING", retval |-> Retval(None, Null)])

task_id(i) == ToString(i)

TaskIndex(job_id) ==
    IF \E i \in 1..Len(tasks) : task_id(i) = job_id
    THEN CHOOSE i \in 1..Len(tasks) : task_id(i) = job_id
    ELSE 0

\* AsyncResult(job_id).state: an id the backend holds nothing for is PENDING
AsyncResult_state(job_id) ==
    IF TaskIndex(job_id) = 0 THEN "PENDING" ELSE tasks[TaskIndex(job_id)].state

AsyncResult_result(job_id) ==
    IF TaskIndex(job_id) = 0 THEN Retval(None, Null) ELSE tasks[TaskIndex(job_id)].retval

(***************************************************************************)
(* Responses handed to API callers                                         *)
(***************************************************************************)
Resp(op, job, error, body) == [op |-> op, job |-> job, error |-> error, body |-> body]

NoResp == Resp("none", None, None, <<>>)

(***************************************************************************)
(* ProcessManager.execute_process                                          *)
(***************************************************************************)
ProcessExecRequestBody(inputs, outputs, response) ==
    [inputs |-> inputs, outputs |-> outputs, response |-> response]

\* the steps before the cache lookup with the two validations in the other order
Precheck_outputs_first(process_id, data) ==
    IF ~has_process(process_id)
    THEN Raise("ValueError: Process not found", None, <<>>)
    ELSE LET service == get_process(process_id) IN
         IF ~service.ok THEN Raise(service.error, None, <<>>)
         ELSE LET vi == validate_inputs(service.cls, data.inputs)
                  vo == validate_outputs(service.cls, data.outputs)
              IN  IF ~vo.ok
                  THEN Raise("ValueError: Output validation failed", None,
                             <<vo.error>> \o vo.detail)
                  ELSE IF ~vi.ok
                  THEN Raise("ValueError: Input validation failed", vi.field,
                             <<vi.error>> \o vi.detail)
                  ELSE IF data.outputs.given
                  THEN Raise("ValidationError: CalculationTask.outputs", "outputs", <<>>)
                  ELSE Ok

\* the steps before the cache lookup: the first one that raises ends the call
Precheck(process_id, data) ==
    IF ~has_process(process_id)
    THEN Raise("ValueError: Process not found", None, <<>>)
    ELSE LET service == get_process(process_id) IN
         IF ~service.ok THEN Raise(service.error, None, <<>>)
         ELSE LET vi == validate_inputs(service.cls, data.inputs)
                  vo == validate_outputs(service.cls, data.outputs)
              IN  IF ~vi.ok
                  THEN Raise("ValueError: Input validation failed", vi.field,
                             <<vi.error>> \o vi.detail)
                  ELSE IF ~vo.ok
                  THEN Raise("ValueError: Output validation failed", None,
                             <<vo.error>> \o vo.detail)
                  \* CalculationTask.outputs is List[str] | None and data.outputs is a
                  \* dict or None: pydantic refuses a dict where a list is declared
                  ELSE IF data.outputs.given
                  THEN Raise("ValidationError: CalculationTask.outputs", "outputs", <<>>)
                  ELSE Ok

Checking(i) == calls[i].phase = "checking"

\* the calls that had returned a job id when a new call arrives
ReturnedCalls == {i \in 1..Len(calls) : calls[i].jobID # None}

\* the calls whose job's task the worker had finished when a new call arrives
FinishedJobs ==
    {i \in 1..Len(calls) : calls[i].jobID # None /\ AsyncResult_state(calls[i].jobID) # "PENDING"}

\* an execute_process that sends the cache lookup before it resolves and validates
ExecuteProcess_lookup_first(process_id, data, mode) ==
    LET pre == Precheck(process_id, data)
        calculation_task == CalculationTask(data.inputs, NoOutputs, data.response)
    IN  /\ Len(calls) < MaxCalls
        /\ tasks' = send_task(tasks, "check_cache", None, model_dump(calculation_task))
        /\ IF pre.ok
           THEN /\ calls' = Append(calls,
                      [process_id |-> process_id, inputs |-> data.inputs,
                       response |-> data.response, mode |-> mode,
                       phase |-> "checking", check |-> Len(tasks) + 1,
                       outcome |-> "pending", jobID |-> None, body |-> <<>>,
                       prior |-> ReturnedCalls, after |-> FinishedJobs,
                       sent |-> 1, executed |-> 0])
                /\ resp' = NoResp
           ELSE /\ resp' = Resp("execute_process", None, pre.error,
                                [field |-> pre.field, detail |-> pre.detail,
                                 process_id |-> process_id, inputs |-> data.inputs,
                                 outputs |-> data.outputs])
                /\ UNCHANGED calls
        /\ UNCHANGED <<registry, store, execLog, fpTask, fpKey>>

\* execute_process up to cache_check.get(timeout=10): either it raises, or the
\* check_cache task is sent and the call blocks on its result
ExecuteProcess(process_id, data, mode) ==
    LET pre == Precheck(process_id, data)
        calculation_task == CalculationTask(data.inputs, NoOutputs, data.response)
    IN  /\ pre.ok => Len(calls) < MaxCalls
        /\ IF pre.ok
           THEN /\ tasks' = send_task(tasks, "check_cache", None, model_dump(calculation_task))
                /\ calls' = Append(calls,
                      [process_id |-> process_id, inputs |-> data.inputs,
                       response |-> data.response, mode |-> mode,
                       phase |-> "checking", check |-> Len(tasks) + 1,
                       outcome |-> "pending", jobID |-> None, body |-> <<>>,
                       prior |-> ReturnedCalls, after |-> FinishedJobs,
                       sent |-> 1, executed |-> 0])
                /\ resp' = NoResp
           ELSE /\ resp' = Resp("execute_process", None, pre.error,
                                [field |-> pre.field, detail |-> pre.detail,
                                 process_id |-> process_id, inputs |-> data.inputs,
                                 outputs |-> data.outputs])
                /\ UNCHANGED <<tasks, calls>>
        /\ UNCHANGED <<registry, store, execLog, fpTask, fpKey>>

\* cache_check.get(timeout=10) gives up before the worker has answered
ExecuteProcessTimeout(i) ==
    /\ Checking(i)
    /\ tasks[calls[i].check].state = "PENDING"
    /\ calls' = [calls EXCEPT ![i].phase = "done", ![i].outcome = "timeout"]
    /\ resp' = Resp("execute_process", None, "TimeoutError", <<>>)
    /\ UNCHANGED <<registry, store, tasks, execLog, fpTask, fpKey>>

CacheAnswered(i) == Checking(i) /\ tasks[calls[i].check].state = "SUCCESS"

cache_status(i) == tasks[calls[i].check].retval.status

TaskOf(i) == CalculationTask(calls[i].inputs, NoOutputs, calls[i].response)

Returned(i, outcome, job_id, body, executed) ==
    [calls EXCEPT ![i].phase = "done", ![i].outcome = outcome, ![i].jobID = job_id,
                  ![i].body = body, ![i].sent = @ + 1, ![i].executed = executed]

\* a HIT recorded like a fresh submission
cache_hit_job_info_accepted(job_id) ==
    JobStatusInfo([jobID |-> job_id, status |-> JobStatusCode_ACCEPTED,
                   type |-> "process", progress |-> 0])

\* the job record _check_cache writes on a HIT
cache_hit_job_info(job_id) ==
    JobStatusInfo([jobID |-> job_id, status |-> JobStatusCode_SUCCESSFUL,
                   type |-> "process", progress |-> 100,
                   message |-> "Result retrieved from cache"])

\* _check_cache on a HIT: a find_result_in_cache task gives the job id
check_cache_hit(i) ==
    LET job_id == task_id(Len(tasks) + 1)
        job_info == cache_hit_job_info(job_id)
        body == ProcessExecResponse([status |-> "successful", jobID |-> job_id,
                                     type |-> "process"])
    IN  /\ CacheAnswered(i)
        /\ cache_status(i) = "HIT"
        /\ tasks' = send_task(tasks, "find_result_in_cache", None,
                              Payload("celery_key", NoTask, celery_key(TaskOf(i)), Null))
        /\ store' = Cache_put(store, job_key(job_id), job_info)
        /\ calls' = Returned(i, "hit", job_id, body, 0)
        /\ resp' = Resp("execute_process", job_id, None, body)
        /\ UNCHANGED <<registry, execLog, fpTask, fpKey>>

\* a job record that is already running when the call returns
async_job_status_running(job_id, process_id) ==
    JobStatusInfo([jobID |-> job_id, status |-> "running", type |-> "process",
                   process_id |-> process_id, progress |-> 50])

\* a job record whose progress is beyond 100
async_job_status_progress_over(job_id, process_id) ==
    JobStatusInfo([jobID |-> job_id, status |-> "accepted", type |-> "process",
                   process_id |-> process_id, progress |-> 150])

\* the job record AsyncExecutionStrategy.execute writes
async_job_status(job_id, process_id) ==
    JobStatusInfo([jobID |-> job_id, status |-> "accepted", type |-> "process",
                   process_id |-> process_id, progress |-> 0])

\* AsyncExecutionStrategy.execute
AsyncExecutionStrategy_execute(i) ==
    LET job_id == task_id(Len(tasks) + 1)
        job_status == async_job_status(job_id, calls[i].process_id)
        body == ProcessExecResponse([status |-> "accepted", jobID |-> job_id,
                                     type |-> "process"])
    IN  /\ CacheAnswered(i)
        /\ cache_status(i) # "HIT"
        /\ calls[i].mode = "async"
        /\ tasks' = send_task(tasks, "execute_process", calls[i].process_id,
                              serialized_data(TaskOf(i)))
        /\ store' = Cache_put(store, job_key(job_id), job_status)
        /\ calls' = Returned(i, "miss", job_id, body, 0)
        /\ resp' = Resp("execute_process", job_id, None, body)
        /\ UNCHANGED <<registry, execLog, fpTask, fpKey>>

\* the job record SyncExecutionStrategy.execute writes
sync_job_status(job_id, process_id) ==
    JobStatusInfo([jobID |-> job_id, status |-> JobStatusCode_ACCEPTED, type |-> "process",
                   process_id |-> process_id, progress |-> 0])

\* SyncExecutionStrategy.execute: process.execute(inputs) is called without await, so
\* an "async def" execute only yields a coroutine object, its body does not run, and
\* the task serializer refuses the coroutine object in send_task
SyncExecutionStrategy_execute(i) ==
    LET process == get_process(calls[i].process_id)
        result == execute(process.cls, calls[i].inputs)
        job_id == task_id(Len(tasks) + 1)
        job_status == sync_job_status(job_id, calls[i].process_id)
        body == ProcessExecResponse([status |-> "successful", jobID |-> job_id,
                                     type |-> "process", value |-> result])
    IN  /\ CacheAnswered(i)
        /\ cache_status(i) # "HIT"
        /\ calls[i].mode = "sync"
        /\ IF /\ process.ok
              /\ ~iscoroutinefunction(process.cls)
              /\ ~execute_raises(process.cls, calls[i].inputs)
           THEN /\ execLog' = Append(execLog, <<process.cls, celery_key(TaskOf(i))>>)
                /\ tasks' = send_task(tasks, "store_result", calls[i].process_id,
                                      Payload("store_args", NoTask, celery_key(TaskOf(i)), result))
                /\ store' = Cache_put(store, job_key(job_id), job_status)
                /\ calls' = Returned(i, "miss", job_id, body, 1)
                /\ resp' = Resp("execute_process", job_id, None, body)
           ELSE /\ calls' = [calls EXCEPT ![i].phase = "done", ![i].outcome = "error"]
                /\ resp' = Resp("execute_process", None,
                                IF ~process.ok THEN process.error
                                ELSE IF iscoroutinefunction(process.cls) THEN "EncodeError"
                                ELSE "ProcessError", <<>>)
                \* an execute that raises has been invoked
                /\ execLog' = IF process.ok /\ ~iscoroutinefunction(process.cls)
                              THEN Append(execLog, <<process.cls, celery_key(TaskOf(i))>>)
                              ELSE execLog
                /\ UNCHANGED <<tasks, store>>
        /\ UNCHANGED <<registry, fpTask, fpKey>>

(***************************************************************************)
(* The worker (worker/celery_app.py)                                       *)
(***************************************************************************)
RegisteredTasks == {"execute_process", "check_cache", "find_result_in_cache"}

Queued(i) == ~tasks[i].consumed

Finished(i, state, retval) ==
    [tasks EXCEPT ![i].consumed = TRUE, ![i].state = state, ![i].retval = retval]

\* the check_cache task: HIT when the value under the fingerprint key is truthy
check_cache(st, payload) ==
    LET task == CalculationTask(payload.inputs, payload.outputs, payload.response)
        cached_result == Cache_get(st, celery_key(task))
    IN  IF Truthy(cached_result) THEN Retval("HIT", cached_result) ELSE Retval("MISS", Null)

WorkerCheckCache(i) ==
    /\ Queued(i)
    /\ tasks[i].name = "check_cache"
    /\ tasks' = Finished(i, "SUCCESS", check_cache(store, tasks[i].payload))
    /\ resp' = NoResp
    /\ UNCHANGED <<registry, store, calls, execLog, fpTask, fpKey>>

\* the find_result_in_cache task
find_result_in_cache(st, key) == Retval(None, Cache_get(st, key))

WorkerFindResult(i) ==
    /\ Queued(i)
    /\ tasks[i].name = "find_result_in_cache"
    /\ tasks' = Finished(i, "SUCCESS", find_result_in_cache(store, tasks[i].payload.celery_key))
    /\ resp' = NoResp
    /\ UNCHANGED <<registry, store, calls, execLog, fpTask, fpKey>>

\* the body of the execute_process task: get_process_registry().get_service(process_id)
\* is looked up on ProcessRegistry, then service.execute(data) runs
execute_process_task(t) ==
    IF "get_service" \notin ProcessRegistryMethods
    THEN [ok |-> FALSE, error |-> "AttributeError", cls |-> None, result |-> Null]
    ELSE LET service == get_process(t.process_id) IN
         IF ~service.ok
         THEN [ok |-> FALSE, error |-> service.error, cls |-> None, result |-> Null]
         ELSE IF execute_raises(service.cls, t.payload.inputs)
         THEN [ok |-> FALSE, error |-> "ProcessError", cls |-> service.cls, result |-> Null]
         ELSE [ok |-> TRUE, error |-> None, cls |-> service.cls,
               result |-> execute(service.cls, t.payload.inputs)]

\* CacheResultTask.on_success: CalculationTask(**args[1]) needs a mapping; any
\* exception is logged and swallowed, leaving the cache as it was
on_success(st, retval, t) ==
    IF t.payload.kind = "mapping"
    THEN Cache_put(st, celery_key(CalculationTask(t.payload.inputs, t.payload.outputs,
                                                  t.payload.response)), retval)
    ELSE st

\* a worker that stores the failure of an execute_process message as its result
WorkerExecuteProcess_caching_failures(i) ==
    LET run == execute_process_task(tasks[i])
        key == celery_key(CalculationTask(tasks[i].payload.inputs, tasks[i].payload.outputs,
                                          tasks[i].payload.response))
    IN  /\ Queued(i)
        /\ tasks[i].name = "execute_process"
        /\ tasks' = Finished(i, IF run.ok THEN "SUCCESS" ELSE "FAILURE",
                             Retval(run.error, run.result))
        /\ store' = IF run.ok THEN on_success(store, run.result, tasks[i])
                    ELSE Cache_put(store, key, Str("\"failed\""))
        /\ execLog' = IF run.ok
                      THEN Append(execLog, <<run.cls, hash_dict(tasks[i].payload)>>)
                      ELSE execLog
        /\ resp' = NoResp
        /\ UNCHANGED <<registry, calls, fpTask, fpKey>>

WorkerExecuteProcess(i) ==
    LET run == execute_process_task(tasks[i]) IN
    /\ Queued(i)
    /\ tasks[i].name = "execute_process"
    /\ tasks' = Finished(i, IF run.ok THEN "SUCCESS" ELSE "FAILURE",
                         Retval(run.error, run.result))
    /\ store' = IF run.ok THEN on_success(store, run.result, tasks[i]) ELSE store
    /\ execLog' = IF run.ok
                  THEN Append(execLog, <<run.cls, hash_dict(tasks[i].payload)>>)
                  ELSE execLog
    /\ resp' = NoResp
    /\ UNCHANGED <<registry, calls, fpTask, fpKey>>

\* a message naming a task the worker has not registered is rejected and its
\* result is marked as failed (NotRegistered)
WorkerUnknownTask(i) ==
    /\ Queued(i)
    /\ tasks[i].name \notin RegisteredTasks
    /\ tasks' = Finished(i, "FAILURE", Retval("NotRegistered", Null))
    /\ resp' = NoResp
    /\ UNCHANGED <<registry, store, calls, execLog, fpTask, fpKey>>

(***************************************************************************)
(* ProcessManager.get_job_status / get_job_result / delete_job             *)
(***************************************************************************)
get_job_status(job_id) ==
    LET job_info == Cache_get(store, job_key(job_id))
        state == AsyncResult_state(job_id)
    IN  IF ~Truthy(job_info)
        THEN Resp("get_job_status", job_id, "ValueError: Job not found", <<>>)
        ELSE IF state \in {"SUCCESS", "FAILURE"}
        THEN IF state = "SUCCESS"
             THEN Resp("get_job_status", job_id, None,
                       [status |-> "successful", type |-> "process"])
             ELSE Resp("get_job_status", job_id, None,
                       [status |-> "failed", type |-> "process",
                        message |-> AsyncResult_result(job_id).status])
        ELSE Resp("get_job_status", job_id, None, [status |-> "running", type |-> "process"])

GetJobStatus(job_id) ==
    /\ resp' = get_job_status(job_id)
    /\ UNCHANGED <<registry, store, tasks, calls, execLog, fpTask, fpKey>>

get_job_result(job_id) ==
    LET job_info == Cache_get(store, job_key(job_id))
        state == AsyncResult_state(job_id)
    IN  IF ~Truthy(job_info)
        THEN Resp("get_job_result", job_id, "ValueError: Job not found", <<>>)
        ELSE CASE state = "PENDING" ->
                    Resp("get_job_result", job_id, "ValueError: Result not ready", <<>>)
               [] state = "FAILURE" ->
                    Resp("get_job_result", job_id, "ValueError: Job failed",
                         [message |-> AsyncResult_result(job_id).status])
               [] state = "SUCCESS" ->
                    Resp("get_job_result", job_id, None,
                         [result |-> AsyncResult_result(job_id).result])
               [] OTHER ->
                    Resp("get_job_result", job_id, None,
                         [status |-> "running", type |-> "process"])

GetJobResult(job_id) ==
    /\ resp' = get_job_result(job_id)
    /\ UNCHANGED <<registry, store, tasks, calls, execLog, fpTask, fpKey>>

\* AsyncResult.forget(): the backend drops what it holds for the task
forget(job_id) ==
    IF TaskIndex(job_id) = 0 THEN tasks
    ELSE [tasks EXCEPT ![TaskIndex(job_id)].state = "PENDING",
                       ![TaskIndex(job_id)].retval = Retval(None, Null)]

\* delete_job: an AsyncResult object is always truthy, so the not-found branch is
\* never taken; the job record in the cache is left alone
DeleteJob(job_id) ==
    /\ tasks' = forget(job_id)
    /\ resp' = Resp("delete_job", job_id, None,
                    [status |-> "dismissed", message |-> "Job dismissed"])
    /\ UNCHANGED <<registry, store, calls, execLog, fpTask, fpKey>>

(***************************************************************************)
(* The specification                                                       *)
(***************************************************************************)
InA == << <<"text", Str("\"abc\"")>> >>
InB == << <<"text", Str("\"abc\"")>>, <<"n", Num("1")>> >>
InMissing == << <<"n", Num("1")>> >>
InBadType == << <<"text", Num("1")>> >>

Request(process_id, inputs, outputs, mode) ==
    [process_id |-> process_id, mode |-> mode,
     data |-> ProcessExecRequestBody(inputs, outputs, "raw")]

\* the requests callers send: each way to be refused, and the accepted ones in both modes
Requests ==
    {Request("nope", InA, NoOutputs, "async"),
     Request("stale", InA, NoOutputs, "sync"),
     Request("upper", InMissing, NoOutputs, "async"),
     Request("upper", InBadType, NoOutputs, "sync"),
     Request("upper", InA, Outputs(<<"bogus">>), "async"),
     Request("upper", InA, Outputs(<<"result">>), "sync"),
     Request("nope", InMissing, Outputs(<<"bogus">>), "sync"),
     Request("upper", InBadType, Outputs(<<"bogus">>), "async"),
     Request("silent", InMissing, NoOutputs, "async"),
     Request("shout", InA, NoOutputs, "sync")}
    \cup {Request(p[1], p[2], NoOutputs, mode) :
            p \in {<<"upper", InA>>, <<"upper", InB>>, <<"echo", InA>>},
            mode \in {"sync", "async"}}

\* the registry as the @register_process decorators and an earlier deployment left it
InitialRegistry ==
    [upper |-> [class_path |-> "procs_Upper"],
     echo  |-> [class_path |-> "procs_Echo"],
     pair  |-> [class_path |-> "procs_Pair"],
     silent |-> [class_path |-> "procs_Silent"],
     shout |-> [class_path |-> "procs_Shout"],
     fail |-> [class_path |-> "procs_Fail"],
     stale |-> [class_path |-> "gone_Removed"]]

\* redis outlives the service: results an earlier run stored may still be there
InitialStores ==
    {<<>>} \cup
    {[k \in {make_key(hash_dict(CalculationTask(InA, NoOutputs, "raw")))} |-> v] :
        v \in {execute("procs_Upper", InA)}}

\* the ids a caller can know: those execute_process returned, and one it made up
KnownJobIds == ({calls[i].jobID : i \in 1..Len(calls)} \ {None}) \cup {"0"}

Init ==
    /\ registry = InitialRegistry
    /\ store \in InitialStores
    /\ tasks = <<>>
    /\ calls = <<>>
    /\ execLog = <<>>
    /\ resp = NoResp
    /\ fpTask = <<NoTask, NoTask>>
    /\ fpKey = <<>>

Next ==
    \/ \E request \in Requests :
            ExecuteProcess(request.process_id, request.data, request.mode)
    \/ \E i \in 1..Len(calls) : ExecuteProcessTimeout(i)
    \/ \E i \in 1..Len(calls) : check_cache_hit(i)
    \/ \E i \in 1..Len(calls) : AsyncExecutionStrategy_execute(i)
    \/ \E i \in 1..Len(calls) : SyncExecutionStrategy_execute(i)
    \/ \E i \in 1..Len(tasks) : WorkerCheckCache(i)
    \/ \E i \in 1..Len(tasks) : WorkerFindResult(i)
    \/ \E i \in 1..Len(tasks) : WorkerExecuteProcess(i)
    \/ \E i \in 1..Len(tasks) : WorkerUnknownTask(i)
    \/ \E job_id \in KnownJobIds : GetJobStatus(job_id)
    \/ \E job_id \in KnownJobIds : GetJobResult(job_id)
    \/ \E job_id \in KnownJobIds : DeleteJob(job_id)

Spec == Init /\ [][Next]_vars

(***************************************************************************)
(* The fingerprint on its own: two CalculationTasks and their celery_key   *)
(***************************************************************************)
FpNames == {"a", "b", "text"}
FpValues ==
    {Str("\"abc\""),
     Obj(<< <<"x", "1">>, <<"y", "2">> >>),
     Obj(<< <<"y", "2">>, <<"x", "1">> >>)}
FpOutputs == {NoOutputs, Outputs(<<"result">>), Outputs(<<"extra", "result">>)}
FpResponses == {"raw", "document"}

\* the mappings of n entries, as sequences of <<name, value>> in insertion order
FpMappings(n) ==
    {m \in [1..n -> FpNames \X FpValues] : \A i, j \in 1..n : i # j => m[i][1] # m[j][1]}

\* a dict does not compare by insertion order, at either level
AsDict(pairs) ==
    {<<pairs[i][1], pairs[i][2].type, pairs[i][2].repr,
       {pairs[i][2].items[k] : k \in 1..Len(pairs[i][2].items)}>> : i \in 1..Len(pairs)}

SameMapping(p, q) == AsDict(p) = AsDict(q)

FpInit ==
    /\ registry = InitialRegistry
    /\ store = <<>>
    /\ tasks = <<>>
    /\ calls = <<>>
    /\ execLog = <<>>
    /\ resp = NoResp
    /\ \E n \in 0..MaxInputs :
         \E m1 \in FpMappings(n), m2 \in FpMappings(n), o \in FpOutputs, r \in FpResponses :
            /\ Names(m1) = Names(m2)
            /\ fpTask = <<CalculationTask(m1, NoOutputs, "raw"), CalculationTask(m2, o, r)>>
    /\ fpKey = <<>>

\* task.celery_key is read, on both tasks
ReadCeleryKey ==
    /\ Len(fpKey) < 2
    /\ fpKey' = Append(fpKey, <<celery_key(fpTask[1]), celery_key(fpTask[2])>>)
    /\ UNCHANGED <<registry, store, tasks, calls, execLog, resp, fpTask>>

SpecFp == FpInit /\ [][ReadCeleryKey]_vars

(***************************************************************************)
(* Claims about the fingerprint (checked under SpecFp)                     *)
(***************************************************************************)

\* C3: the fingerprint is a deterministic function of the inputs mapping: two
\* tasks whose inputs are the same mapping written in a different key order have
\* the same celery_key, and every read of celery_key gives the same value.
C3_FingerprintIgnoresKeyOrder ==
    \A k \in 1..Len(fpKey) :
        /\ SameMapping(fpTask[1].inputs, fpTask[2].inputs) => fpKey[k][1] = fpKey[k][2]
        /\ fpKey[k] = fpKey[1]

\* C3 witness: celery_key was read twice on two tasks whose inputs are the same
\* two-entry mapping in two different insertion orders
C3_Witness ==
    /\ Len(fpKey) = 2
    /\ Len(fpTask[1].inputs) = 2
    /\ fpTask[1].inputs # fpTask[2].inputs
    /\ fpTask[1].inputs[1][1] = fpTask[2].inputs[2][1]
    /\ SameMapping(fpTask[1].inputs, fpTask[2].inputs)

\* C4: outputs and response take no part in the fingerprint: two tasks with
\* identical inputs and different outputs or response have the same celery_key,
\* hence the same cache key.
C4_OutputsAndResponseNotFingerprinted ==
    \A k \in 1..Len(fpKey) :
        (/\ fpTask[1].inputs = fpTask[2].inputs
         /\ \/ fpTask[1].outputs # fpTask[2].outputs
            \/ fpTask[1].response # fpTask[2].response)
        => /\ fpKey[k][1] = fpKey[k][2]
           /\ make_key(fpKey[k][1]) = make_key(fpKey[k][2])

\* C4 witness: celery_key was read on two tasks with the same non-empty inputs,
\* one without outputs in raw mode, one naming outputs in document mode
C4_Witness ==
    /\ Len(fpKey) >= 1
    /\ fpTask[1].inputs = fpTask[2].inputs
    /\ fpTask[1].inputs # <<>>
    /\ ~fpTask[1].outputs.given /\ fpTask[2].outputs.given
    /\ fpTask[1].response = "raw" /\ fpTask[2].response = "document"

(***************************************************************************)
(* Claims about execute_process and the polls (checked under Spec)         *)
(***************************************************************************)
\* the job record stored for the job id call i returned
JobRecord(i) == Cache_get(store, job_key(calls[i].jobID))

\* call i has just returned: its response is the one the caller holds
JustReturned(i) ==
    /\ resp.op = "execute_process"
    /\ calls[i].jobID # None
    /\ resp.job = calls[i].jobID

SameRequest(i, j) ==
    /\ calls[i].process_id = calls[j].process_id
    /\ calls[i].inputs = calls[j].inputs

Answered(j) == calls[j].phase = "done" /\ calls[j].outcome \in {"hit", "miss"}

FromCache(rec) ==
    /\ rec # Null
    /\ rec.status = "successful"
    /\ rec.progress = 100
    /\ rec.message = "Result retrieved from cache"

\* C1: when the same (P, I) is submitted twice in async mode, the second after
\* the worker has completed the first, the second call is a cache hit: its job
\* record is successful with progress 100 and a from-cache message, and execute
\* is not invoked for it.
C1_SecondAsyncSubmissionHits ==
    \A i, j \in 1..Len(calls) :
        (/\ i < j
         /\ SameRequest(i, j)
         /\ calls[i].mode = "async" /\ calls[j].mode = "async"
         /\ i \in calls[j].after
         /\ Answered(j))
        => /\ calls[j].outcome = "hit"
           /\ FromCache(JobRecord(j))

\* C2: over any interleaving of execute_process calls, execute is invoked at most
\* once per process and fingerprint.
C2_ExecuteAtMostOncePerFingerprint ==
    \A a, b \in 1..Len(execLog) : execLog[a] = execLog[b] => a = b

\* C5: a sync call that misses the cache returns the computed result inline, in
\* the response of the same call.
C5_SyncMissReturnsValueInline ==
    \A i \in 1..Len(calls) :
        (calls[i].mode = "sync" /\ calls[i].outcome = "miss" /\ JustReturned(i))
        => /\ "value" \in DOMAIN resp.body
           /\ resp.body.value = execute(get_process(calls[i].process_id).cls, calls[i].inputs)

\* C6: immediately after a sync call returns, the record stored for the returned
\* job id is terminal (successful or failed) with progress 100.
C6_SyncRecordTerminal ==
    \A i \in 1..Len(calls) :
        (calls[i].mode = "sync" /\ JustReturned(i))
        => /\ JobRecord(i) # Null
           /\ JobRecord(i).status \in {"successful", "failed"}
           /\ JobRecord(i).progress = 100

\* C7: a sync execution persists its result behind the fingerprint key: a second
\* sync call with the same process and inputs, made after the first one's
\* store_result task was handled, is a cache hit under a new job id with a
\* successful, retrieved-from-cache record, and does not execute again.
C7_SecondSyncCallHits ==
    \A i, j \in 1..Len(calls) :
        (/\ i < j
         /\ SameRequest(i, j)
         /\ calls[i].mode = "sync" /\ calls[j].mode = "sync"
         /\ i \in calls[j].after
         /\ Answered(j))
        => /\ calls[j].outcome = "hit"
           /\ calls[j].jobID # calls[i].jobID
           /\ FromCache(JobRecord(j))
           /\ Len(execLog) <= 1

\* C8: immediately after an async call that missed the cache returns, the record
\* stored for the returned job id has status accepted and progress 0, and the
\* response carries the job id and no result value.
C8_AsyncMissAccepted ==
    \A i \in 1..Len(calls) :
        (calls[i].mode = "async" /\ calls[i].outcome = "miss" /\ JustReturned(i))
        => /\ JobRecord(i) # Null
           /\ JobRecord(i).jobID = resp.job
           /\ JobRecord(i).status = "accepted"
           /\ JobRecord(i).progress = 0
           /\ DOMAIN resp.body = {"status", "jobID", "type"}
           /\ resp.body.jobID = resp.job
           /\ resp.body.status = "accepted"
           /\ tasks[TaskIndex(resp.job)].name = "execute_process"

\* C8 witness: an async call has just returned from a cache miss, its
\* execute_process task still waiting in the queue
C8_Witness ==
    \E i \in 1..Len(calls) :
        /\ calls[i].mode = "async"
        /\ calls[i].outcome = "miss"
        /\ JustReturned(i)
        /\ Queued(TaskIndex(resp.job))

\* the worker has handled the task behind the job id call i returned
WorkerCompleted(i) == tasks[TaskIndex(calls[i].jobID)].consumed

PollOf(i) ==
    /\ resp.op \in {"get_job_status", "get_job_result"}
    /\ resp.job = calls[i].jobID

NotReady == resp.error = "ValueError: Result not ready"

RunningWithProgress ==
    /\ resp.error = None
    /\ {"status", "progress"} \subseteq DOMAIN resp.body
    /\ resp.body.status = "running"
    /\ resp.body.progress \in 0..100

TerminalAnswer ==
    \/ /\ resp.error = None
       /\ "status" \in DOMAIN resp.body
       /\ resp.body.status \in {"successful", "failed"}
    \/ resp.error = None /\ "result" \in DOMAIN resp.body
    \/ resp.error = "ValueError: Job failed"

\* C9: for an async job, a poll made before the worker has completed answers
\* not-ready or running with a progress in 0..100, and a poll made after the
\* worker has completed answers with a terminal status.
C9_AsyncPollAnswers ==
    \A i \in 1..Len(calls) :
        (calls[i].mode = "async" /\ calls[i].outcome = "miss" /\ PollOf(i))
        => IF WorkerCompleted(i) THEN TerminalAnswer
           ELSE NotReady \/ RunningWithProgress

\* C10: on a cache hit, in sync and in async mode, the call returns a job id no
\* other call returned, the record stored under it is successful with progress
\* 100 and a from-cache message, the task behind the job id is the cache lookup,
\* and the hit neither submits an execute_process task nor calls execute: those
\* exist only for the calls that missed.
C10_HitRecordsWithoutDispatch ==
    LET misses == {j \in 1..Len(calls) : calls[j].outcome = "miss"}
        dispatched == {t \in 1..Len(tasks) : tasks[t].name \in {"execute_process", "store_result"}}
    IN  /\ \A i \in 1..Len(calls) :
              calls[i].outcome = "hit"
              => /\ calls[i].jobID # None
                 /\ \A j \in 1..Len(calls) : j # i => calls[j].jobID # calls[i].jobID
                 /\ FromCache(JobRecord(i))
                 /\ JobRecord(i).jobID = calls[i].jobID
                 /\ tasks[TaskIndex(calls[i].jobID)].name = "find_result_in_cache"
        /\ Cardinality(dispatched) <= Cardinality(misses)
        /\ Len(execLog) <= Cardinality(misses)

\* C10 witness: a sync call and an async call both hit the cache, and no process
\* was dispatched or executed
C10_Witness ==
    /\ \E i, j \in 1..Len(calls) :
            /\ calls[i].outcome = "hit" /\ calls[i].mode = "sync"
            /\ calls[j].outcome = "hit" /\ calls[j].mode = "async"
    /\ execLog = <<>>
    /\ resp.op = "execute_process"

\* C11: for a job id returned by a cache-hit call, every status poll by that job
\* id (get_job_status) reports successful, never running or failed.
C11_HitJobPollsSuccessful ==
    \A i \in 1..Len(calls) :
        (calls[i].outcome = "hit" /\ resp.op = "get_job_status" /\ resp.job = calls[i].jobID)
        => /\ resp.error = None
           /\ resp.body.status = "successful"

(***************************************************************************)
(* One execute_process call on every request of a bounded family           *)
(***************************************************************************)
ReqNameSeq == <<"a", "b", "flag", "n", "text">>
Absent == [type |-> "absent", repr |-> "", items |-> <<>>]
ReqValues == {Absent, Str("\"abc\""), Num("1"), Bool("true")}

\* the inputs mapping holding name -> f[name] for the names f does not leave out
RECURSIVE MkInputs(_, _)
MkInputs(f, k) ==
    IF k > Len(ReqNameSeq) THEN <<>>
    ELSE (IF f[ReqNameSeq[k]] = Absent THEN <<>> ELSE << <<ReqNameSeq[k], f[ReqNameSeq[k]]>> >>)
         \o MkInputs(f, k + 1)

ReqInputs == {MkInputs(f, 1) : f \in [{ReqNameSeq[k] : k \in 1..Len(ReqNameSeq)} -> ReqValues]}

ReqOutputs ==
    {NoOutputs, Outputs(<<>>), Outputs(<<"result">>), Outputs(<<"bogus">>),
     Outputs(<<"result", "extra">>), Outputs(<<"extra", "bogus", "result", "nope">>)}

ReqProcessIds == {"nope", "stale", "upper", "echo", "pair", "silent"}

AllRequests ==
    {Request(p, i, o, mode) :
        p \in ReqProcessIds, i \in ReqInputs, o \in ReqOutputs, mode \in {"sync", "async"}}

\* the first call a freshly started manager receives
FirstCall ==
    /\ calls = <<>>
    /\ resp = NoResp
    /\ \E request \in AllRequests :
            ExecuteProcess(request.process_id, request.data, request.mode)

SpecRequests == Init /\ [][FirstCall]_vars

(***************************************************************************)
(* Claims about resolution and validation (checked under SpecRequests)     *)
(***************************************************************************)
\* execute_process raised before the cache lookup; the response carries the call's arguments
Refused ==
    /\ resp.op = "execute_process"
    /\ resp.error # None
    /\ "process_id" \in DOMAIN resp.body

\* the process id resolves to a loadable class
Resolves(process_id) == has_process(process_id) /\ get_process(process_id).ok

DeclaredInputs(process_id) == Classes[get_process(process_id).cls].inputs

DeclaredOutputs(process_id) == Classes[get_process(process_id).cls].outputs

\* names of the declared inputs with minOccurs >= 1 that the request leaves out
MissingRequired(process_id, inputs) ==
    {DeclaredInputs(process_id)[k].name : k \in
        {k \in 1..Len(DeclaredInputs(process_id)) :
            /\ DeclaredInputs(process_id)[k].minOccurs >= 1
            /\ DeclaredInputs(process_id)[k].name \notin Names(inputs)}}

\* positions, in declaration order, of the inputs validate_inputs objects to
Offenders(process_id, inputs) ==
    {k \in 1..Len(DeclaredInputs(process_id)) :
        LET d == DeclaredInputs(process_id)[k] IN
        \/ d.minOccurs >= 1 /\ d.name \notin Names(inputs)
        \/ d.name \in Names(inputs) /\ ~TypeConforms(d.type, Lookup(inputs, d.name))}

FirstOffender(process_id, inputs) ==
    DeclaredInputs(process_id)[CHOOSE k \in Offenders(process_id, inputs) :
                                   \A m \in Offenders(process_id, inputs) : k <= m]

InputValidationError == "ValueError: Input validation failed"

SchemaConforms(type, value) == value.type = type

\* the declared inputs present in the request with a value that does not conform
NonConforming(process_id, inputs) ==
    {k \in 1..Len(DeclaredInputs(process_id)) :
        LET d == DeclaredInputs(process_id)[k] IN
        d.name \in Names(inputs) /\ ~SchemaConforms(d.type, Lookup(inputs, d.name))}

\* C13: for every present input with a declared schema type, validate_inputs
\* checks the value against that type: no request holding a value of a
\* non-conforming type passes validation, and a type error names the offending
\* field with the expected and the actual type.
C13_NonConformingNeverPasses ==
    /\ \A i \in 1..Len(calls) : NonConforming(calls[i].process_id, calls[i].inputs) = {}
    /\ (/\ Refused
        /\ Resolves(resp.body.process_id)
        /\ NonConforming(resp.body.process_id, resp.body.inputs) # {})
       => /\ resp.error = InputValidationError
          /\ \/ resp.body.detail[1] = "ValueError: Missing required input"
             \/ /\ resp.body.detail[1] = "ValueError: Invalid type for input"
                /\ \E k \in NonConforming(resp.body.process_id, resp.body.inputs) :
                      LET d == DeclaredInputs(resp.body.process_id)[k] IN
                      /\ resp.body.field = d.name
                      /\ resp.body.detail[2] = d.type
                      /\ resp.body.detail[3] = Lookup(resp.body.inputs, d.name).type

OutputValidationError == "ValueError: Output validation failed"

\* the call got as far as output validation: the process resolves and its inputs are valid
ReachedOutputValidation(process_id, inputs) ==
    Resolves(process_id) /\ Offenders(process_id, inputs) = {}

\* the requested output names that the process does not declare, in request order
InvalidOutputs(process_id, outputs) ==
    SelectSeq(outputs.names,
              LAMBDA o : \A k \in 1..Len(DeclaredOutputs(process_id)) :
                            DeclaredOutputs(process_id)[k] # o)

C15_NoDeclaredOutputsRefused ==
    /\ \A i \in 1..Len(calls) : DeclaredOutputs(calls[i].process_id) # <<>>
    /\ (Refused /\ ReachedOutputValidation(resp.body.process_id, resp.body.inputs))
       => IF DeclaredOutputs(resp.body.process_id) = <<>>
          THEN /\ resp.error = OutputValidationError
               /\ resp.body.detail = <<"ValueError: Process has no defined outputs">>
          ELSE resp.body.outputs.given

\* C15 witness: a request with valid inputs and no output selection, to a process
\* that declares no outputs, is refused
C15_Witness ==
    /\ Refused
    /\ resp.body.process_id = "silent"
    /\ DeclaredOutputs("silent") = <<>>
    /\ ReachedOutputValidation("silent", resp.body.inputs)
    /\ ~resp.body.outputs.given
    /\ resp.error = OutputValidationError

ProcessNotFoundError == "ValueError: Process not found"

FirstFailure(process_id, inputs, outputs) ==
    IF process_id \notin DOMAIN registry THEN ProcessNotFoundError
    ELSE IF ~Resolves(process_id) THEN "ProcessClassNotFoundError"
    ELSE IF Offenders(process_id, inputs) # {} THEN InputValidationError
    ELSE IF \/ DeclaredOutputs(process_id) = <<>>
            \/ outputs.given /\ InvalidOutputs(process_id, outputs) # <<>>
         THEN OutputValidationError
         ELSE None

\* C17: the steps of execute_process run in the order resolve, validate inputs,
\* validate outputs, cache lookup, dispatch and stop at the first failure: the
\* error of a refused call is that of the first failing step, a call that sends
\* the cache lookup has passed all three, and a call failing resolution or
\* validation sends no task and leaves the result cache, the job records and
\* the worker's queue as they were.
C17_StepsInOrderShortCircuit ==
    /\ [](Refused /\ FirstFailure(resp.body.process_id, resp.body.inputs, resp.body.outputs) # None
            => resp.error = FirstFailure(resp.body.process_id, resp.body.inputs,
                                         resp.body.outputs))
    /\ [](\A i \in 1..Len(calls) :
            FirstFailure(calls[i].process_id, calls[i].inputs,
                         tasks[calls[i].check].payload.outputs) = None)
    /\ [][Refused' => /\ tasks' = tasks
                      /\ store' = store
                      /\ calls' = calls
                      /\ execLog' = execLog]_vars

\* C17 witness: with tasks queued and job records stored, a request whose inputs
\* and outputs are both invalid has just been refused for its inputs
C17_Witness ==
    /\ Refused
    /\ resp.error = InputValidationError
    /\ resp.body.outputs.given
    /\ InvalidOutputs(resp.body.process_id, resp.body.outputs) # <<>>
    /\ \E i \in 1..Len(calls) : calls[i].jobID # None /\ JobRecord(i) # Null
    /\ \E t \in 1..Len(tasks) : Queued(t)

\* C18: delete_job on a job id for which no job exists fails with a
\* job-not-found error.
C18_DeleteUnknownJobFails ==
    (resp.op = "delete_job" /\ Cache_get(store, job_key(resp.job)) = Null
        /\ TaskIndex(resp.job) = 0)
    => resp.error # None

(***************************************************************************)
(* Listings: ProcessManager.get_jobs / get_available_processes             *)
(***************************************************************************)
\* largest limit and offset a listing is asked with
MaxLimit == 3
MaxOffset == 4

\* the orders in which redis may enumerate a set of keys
Orderings(S) ==
    {f \in [1..Cardinality(S) -> S] : \A i, j \in 1..Cardinality(S) : i # j => f[i] # f[j]}

\* Python's seq[offset : offset + limit]
Slice(seq, offset, limit) ==
    IF offset >= Len(seq) THEN <<>>
    ELSE SubSeq(seq, offset + 1, IF offset + limit < Len(seq) THEN offset + limit ELSE Len(seq))

\* redis glob matching for the patterns the program uses: a literal text, or a
\* literal text followed by "*"
glob_match(pattern, key) ==
    IF pattern # <<>> /\ pattern[Len(pattern)] = "*"
    THEN /\ Len(key) >= Len(pattern) - 1
         /\ SubSeq(key, 1, Len(pattern) - 1) = SubSeq(pattern, 1, Len(pattern) - 1)
    ELSE key = pattern

\* the redis keys Cache.keys(pattern) asks for
MatchingKeys(st, pattern) == {k \in DOMAIN st : glob_match(make_key(pattern), k)}

\* Cache.keys(pattern): the matching keys, in the order redis gave them, with
\* the first len(key_prefix) + 1 characters removed
Cache_keys(redis_keys) ==
    [i \in 1..Len(redis_keys) |->
        SubSeq(redis_keys[i], Len(key_prefix) + 2, Len(redis_keys[i]))]

\* next_link = None
NoLink == [path |-> None, limit |-> 0, offset |-> 0]

\* a "next" link that is also given when the page ends exactly at the last item
next_link_inclusive(path, limit, offset, total) ==
    IF offset + limit <= total
    THEN [path |-> path, limit |-> limit, offset |-> offset + limit]
    ELSE NoLink

\* the "next" link of a listing: f"{path}?limit={limit}&offset={offset + limit}"
next_link(path, limit, offset, total) ==
    IF offset + limit < total
    THEN [path |-> path, limit |-> limit, offset |-> offset + limit]
    ELSE NoLink

\* a get_jobs that names each job by the key its record was read under
get_jobs_ids_from_keys(limit, offset, redis_keys) ==
    LET job_keys == Cache_keys(redis_keys)
        page == Slice(job_keys, offset, limit)
        read == [i \in 1..Len(page) |-> Cache_get(store, page[i])]
        jobs == SelectSeq(read, LAMBDA job_info : job_info # Null)
    IN  Resp("get_jobs", None, None,
             [jobs |-> [i \in 1..Len(jobs) |->
                          [jobs[i] EXCEPT !.jobID = "job:" \o jobs[i].jobID]],
              next |-> next_link("/jobs", limit, offset, Len(job_keys)),
              limit |-> limit, offset |-> offset])

\* get_jobs(limit, offset), redis_keys being what redis answered to KEYS "…:job:*":
\* a key whose record cannot be read or validated is skipped
get_jobs(limit, offset, redis_keys) ==
    LET job_keys == Cache_keys(redis_keys)
        page == Slice(job_keys, offset, limit)
        read == [i \in 1..Len(page) |-> Cache_get(store, page[i])]
        jobs == SelectSeq(read, LAMBDA job_info : job_info # Null)
    IN  Resp("get_jobs", None, None,
             [jobs |-> jobs, next |-> next_link("/jobs", limit, offset, Len(job_keys)),
              limit |-> limit, offset |-> offset])

GetJobs(limit, offset) ==
    /\ \E redis_keys \in Orderings(MatchingKeys(store, <<"job", ":", "*">>)) :
            resp' = get_jobs(limit, offset, redis_keys)
    /\ UNCHANGED <<registry, store, tasks, calls, execLog, fpTask, fpKey>>

\* get_process_description(process_id)
get_process_description(process_id) ==
    IF ~has_process(process_id)
    THEN [ok |-> FALSE, error |-> "ValueError: Process not found", id |-> None]
    ELSE IF ~get_process(process_id).ok
         THEN [ok |-> FALSE, error |-> get_process(process_id).error, id |-> None]
         ELSE [ok |-> TRUE, error |-> None, id |-> process_id]

\* get_available_processes(limit, offset), process_ids being what redis answered
\* to HKEYS: the first description that cannot be loaded fails the whole listing
get_available_processes(limit, offset, process_ids) ==
    LET page == Slice(process_ids, offset, limit)
        described == [i \in 1..Len(page) |-> get_process_description(page[i])]
        failed == {i \in 1..Len(page) : ~described[i].ok}
    IN  IF failed # {}
        THEN Resp("get_available_processes", None,
                  described[CHOOSE i \in failed : \A j \in failed : i <= j].error,
                  [limit |-> limit, offset |-> offset])
        ELSE Resp("get_available_processes", None, None,
                  [processes |-> [i \in 1..Len(page) |-> described[i].id],
                   next |-> next_link("/processes", limit, offset, Len(process_ids)),
                   limit |-> limit, offset |-> offset])

GetAvailableProcesses(limit, offset) ==
    /\ \E process_ids \in Orderings(DOMAIN registry) :
            resp' = get_available_processes(limit, offset, process_ids)
    /\ UNCHANGED <<registry, store, tasks, calls, execLog, fpTask, fpKey>>

\* job ids of records an earlier run of the service left in redis
ListJobIds == {"1", "2", "3"}

StoredJobRecord(job_id) ==
    CASE job_id = "1" -> async_job_status(job_id, "upper")
      [] job_id = "2" -> sync_job_status(job_id, "echo")
      [] OTHER -> cache_hit_job_info(job_id)

\* the stores holding some of those job records, with or without a cached result
ListingStores ==
    {[k \in {make_key(job_key(j)) : j \in S} \cup DOMAIN results |->
        IF k \in DOMAIN results THEN results[k]
        ELSE StoredJobRecord(CHOOSE j \in S : make_key(job_key(j)) = k)] :
        S \in SUBSET ListJobIds, results \in InitialStores}

\* the registries holding some of the registered processes
ListingRegistries ==
    {[p \in D |-> InitialRegistry[p]] : D \in SUBSET {"upper", "echo", "stale"}}

ListingInit ==
    /\ registry \in ListingRegistries
    /\ store \in ListingStores
    /\ tasks = <<>>
    /\ calls = <<>>
    /\ execLog = <<>>
    /\ resp = NoResp
    /\ fpTask = <<NoTask, NoTask>>
    /\ fpKey = <<>>

ListingNext ==
    \/ \E limit \in 1..MaxLimit, offset \in 0..MaxOffset : GetJobs(limit, offset)
    \/ \E limit \in 1..MaxLimit, offset \in 0..MaxOffset : GetAvailableProcesses(limit, offset)
    \/ \E job_id \in ListJobIds \cup {"0"} : DeleteJob(job_id)

SpecListing == ListingInit /\ [][ListingNext]_vars

(***************************************************************************)
(* Claims about deletion and the listings (checked under SpecListing)      *)
(***************************************************************************)
\* C19: once delete_job has succeeded on an existing job, that job's record is
\* absent and no later get_jobs listing shows it.
C19_DeletedJobNotListed ==
    [][/\ (/\ resp'.op = "delete_job"
           /\ resp'.error = None
           /\ Cache_get(store, job_key(resp'.job)) # Null)
          => Cache_get(store', job_key(resp'.job)) = Null
       /\ (/\ resp.op = "delete_job"
           /\ resp.error = None
           /\ resp'.op = "get_jobs")
          => \A k \in 1..Len(resp'.body.jobs) : resp'.body.jobs[k].jobID # resp.job]_vars

\* the number of job records in the store
TotalJobs == Cardinality({j \in ListJobIds : Cache_get(store, job_key(j)) # Null})

\* the number of registered processes
TotalProcesses == Cardinality(DOMAIN registry)

\* what a page of limit L at offset O over total items must say about "next"
NextIffMore(next, path, total) ==
    /\ (next # NoLink) = (resp.body.offset + resp.body.limit < total)
    /\ next # NoLink
       => next = [path |-> path, limit |-> resp.body.limit,
                  offset |-> resp.body.offset + resp.body.limit]

\* C20: for both listings and every limit L >= 1 and offset O >= 0, the page
\* holds at most L items, and a next cursor is given exactly when O + L is less
\* than the total number of items; it then points to offset O + L with limit L.
C20_PageBoundedNextIffMore ==
    /\ (resp.op = "get_jobs" /\ resp.error = None)
       => /\ Len(resp.body.jobs) <= resp.body.limit
          /\ NextIffMore(resp.body.next, "/jobs", TotalJobs)
    /\ (resp.op = "get_available_processes" /\ resp.error = None)
       => /\ Len(resp.body.processes) <= resp.body.limit
          /\ NextIffMore(resp.body.next, "/processes", TotalProcesses)

\* C20 witness: three job records, listed with limit 2 from offset 0: two jobs
\* and a next cursor at offset 2
C20_Witness ==
    /\ resp.op = "get_jobs"
    /\ TotalJobs = 3
    /\ resp.body.limit = 2 /\ resp.body.offset = 0
    /\ Len(resp.body.jobs) = 2
    /\ resp.body.next = [path |-> "/jobs", limit |-> 2, offset |-> 2]

(***************************************************************************)
(* ProcessRegistry: registration and lookup                                *)
(***************************************************************************)
\* the fields of ProcessDescription kept here; keywords is Optional
DescriptionFields == <<"title", "version", "keywords">>

ProcessDescription(title, version, keywords) ==
    [title |-> title, version |-> version, keywords |-> keywords]

\* description.model_dump(exclude_none=True): the fields that are set, in
\* declaration order
description_model_dump(description) ==
    SelectSeq([i \in 1..Len(DescriptionFields) |->
                  <<DescriptionFields[i], description[DescriptionFields[i]]>>],
              LAMBDA pair : pair[2] # None)

\* the process classes a deployment may hand to the registry: hasattr says
\* whether the class defines process_description. procs_Upper appears with the
\* description of two releases of the code.
Implementations ==
    {[class_path |-> "procs_Upper", hasattr |-> TRUE,
      process_description |-> ProcessDescription("Upper", "1", None)],
     [class_path |-> "procs_Upper", hasattr |-> TRUE,
      process_description |-> ProcessDescription("Upper", "2", "text")],
     [class_path |-> "procs_Echo", hasattr |-> TRUE,
      process_description |-> ProcessDescription("Echo", "1", None)],
     [class_path |-> "procs_Bare", hasattr |-> FALSE,
      process_description |-> ProcessDescription(None, None, None)]}

\* BaseProcess.get_description
get_description(process) ==
    IF ~process.hasattr
    THEN [ok |-> FALSE, error |-> "NotImplementedError: must define 'process_description'",
          description |-> process.process_description]
    ELSE [ok |-> TRUE, error |-> None, description |-> process.process_description]

\* the process_data register_process serializes for an implementation
process_data(process) ==
    [description |-> description_model_dump(get_description(process).description),
     class_path |-> process.class_path]

\* redis HSET key field value: the hash afterwards
hset(hash, field, value) ==
    [f \in DOMAIN hash \cup {field} |-> IF f = field THEN value ELSE hash[f]]

\* a registration that keeps the entry an id already has
register_process_keeps_existing(process_id, process) ==
    IF ~get_description(process).ok
    THEN [registry |-> registry,
          resp |-> Resp("register_process", None, get_description(process).error,
                        [process_id |-> process_id, process |-> process])]
    ELSE [registry |-> IF process_id \in DOMAIN registry THEN registry
                       ELSE hset(registry, process_id, process_data(process)),
          resp |-> Resp("register_process", None, None,
                        [process_id |-> process_id, process |-> process,
                         result |-> IF process_id \in DOMAIN registry THEN 0 ELSE 1])]

\* a registration that writes the entry before it asks for the description
register_process_writes_before_describing(process_id, process) ==
    [registry |-> hset(registry, process_id, process_data(process)),
     resp |-> Resp("register_process", None, get_description(process).error,
                   [process_id |-> process_id, process |-> process,
                    result |-> IF process_id \in DOMAIN registry THEN 0 ELSE 1])]

\* ProcessRegistry.register_process: the registry afterwards and what the caller sees
register_process(process_id, process) ==
    IF ~get_description(process).ok
    THEN [registry |-> registry,
          resp |-> Resp("register_process", None, get_description(process).error,
                        [process_id |-> process_id, process |-> process])]
    ELSE [registry |-> hset(registry, process_id, process_data(process)),
          resp |-> Resp("register_process", None, None,
                        [process_id |-> process_id, process |-> process,
                         result |-> IF process_id \in DOMAIN registry THEN 0 ELSE 1])]

\* a direct call of get_process_registry().register_process(process_id, process)
RegisterProcess(process_id, process) ==
    /\ registry' = register_process(process_id, process).registry
    /\ resp' = register_process(process_id, process).resp
    /\ UNCHANGED <<store, tasks, calls, execLog, fpTask, fpKey>>

\* the decorator @register_process(process_id) applied to a class
decorator(process_id, cls) ==
    IF ~cls.hasattr
    THEN [registry |-> registry,
          resp |-> Resp("register_process", None,
                        "ValueError: must define a 'description' class variable",
                        [process_id |-> process_id, process |-> cls])]
    ELSE register_process(process_id, cls)

Decorate(process_id, cls) ==
    /\ registry' = decorator(process_id, cls).registry
    /\ resp' = decorator(process_id, cls).resp
    /\ UNCHANGED <<store, tasks, calls, execLog, fpTask, fpKey>>

\* registry.get_process(process_id) called by a reader
GetProcess(process_id) ==
    /\ resp' = Resp("get_process", None, get_process(process_id).error,
                    [process_id |-> process_id, cls |-> get_process(process_id).cls])
    /\ UNCHANGED <<registry, store, tasks, calls, execLog, fpTask, fpKey>>

\* registry.has_process(process_id) called by a reader
HasProcess(process_id) ==
    /\ resp' = Resp("has_process", None, None,
                    [process_id |-> process_id, value |-> has_process(process_id)])
    /\ UNCHANGED <<registry, store, tasks, calls, execLog, fpTask, fpKey>>

\* get_process_ids: the fields of the registry hash as redis enumerates them
\* (HKEYS gives no order), each decoded
get_process_ids(hkeys) == [i \in 1..Len(hkeys) |-> hkeys[i]]

GetProcessIds ==
    /\ \E hkeys \in Orderings(DOMAIN registry) :
            resp' = Resp("get_process_ids", None, None, [ids |-> get_process_ids(hkeys)])
    /\ UNCHANGED <<registry, store, tasks, calls, execLog, fpTask, fpKey>>

\* the ids registrations are made under, and the ids readers ask for
RegistryIds == {"upper", "echo"}

LookupIds == RegistryIds \cup {"stale", "nope"}

\* redis as an earlier deployment left it: empty, or holding an entry whose
\* class has since been removed from the code
RegistryInitial ==
    {<<>>,
     [p \in {"stale"} |->
        [description |-> description_model_dump(ProcessDescription("Old", "1", None)),
         class_path |-> "gone_Removed"]]}

RegistryInit ==
    /\ registry \in RegistryInitial
    /\ store = <<>>
    /\ tasks = <<>>
    /\ calls = <<>>
    /\ execLog = <<>>
    /\ resp = NoResp
    /\ fpTask = <<NoTask, NoTask>>
    /\ fpKey = <<>>

RegistryNext ==
    \/ \E process_id \in RegistryIds, process \in Implementations :
            RegisterProcess(process_id, process)
    \/ \E process_id \in RegistryIds, cls \in Implementations :
            Decorate(process_id, cls)
    \/ \E process_id \in LookupIds : GetProcess(process_id)
    \/ \E process_id \in LookupIds : HasProcess(process_id)
    \/ GetProcessIds

SpecRegistry == RegistryInit /\ [][RegistryNext]_vars

(***************************************************************************)
(* Claims about the registry (checked under SpecRegistry)                  *)
(***************************************************************************)
\* a register call that has just succeeded
Registered == resp.op = "register_process" /\ resp.error = None

\* what a registration of an implementation is to leave under its id: the
\* description's set fields and the locator of the class
Content(process) ==
    [description |->
        SelectSeq(<< <<"title", process.process_description.title>>,
                     <<"version", process.process_description.version>>,
                     <<"keywords", process.process_description.keywords>> >>,
                  LAMBDA pair : pair[2] # None),
     class_path |-> process.class_path]

\* C21: a register call leaves its process id mapped to exactly the content it
\* was given and every other id as it was, so an id never has more than one
\* entry; registering identical content again leaves the registry unchanged,
\* different content replaces the entry, and no other operation changes the
\* registry (each id holds the content of the last registration under it).
C21_RegisterIdempotentLastWins ==
    [][/\ Registered'
          => /\ DOMAIN registry' = DOMAIN registry \cup {resp'.body.process_id}
             /\ registry'[resp'.body.process_id] = Content(resp'.body.process)
             /\ \A p \in DOMAIN registry \ {resp'.body.process_id} :
                    registry'[p] = registry[p]
             /\ (/\ resp'.body.process_id \in DOMAIN registry
                 /\ registry[resp'.body.process_id] = Content(resp'.body.process))
                => registry' = registry
       /\ ~Registered' => registry' = registry]_vars

\* C21 witness: "upper" holds release 2 of procs_Upper after a registration that
\* replaced an existing entry (hset answered 0)
C21_Witness ==
    /\ Registered
    /\ resp.body.process_id = "upper"
    /\ resp.body.result = 0
    /\ resp.body.process.process_description.version = "2"
    /\ registry["upper"].description =
            << <<"title", "Upper">>, <<"version", "2">>, <<"keywords", "text">> >>

\* the errors a registration without a description is refused with: the
\* decorator's and get_description's
RegistrationError ==
    {"ValueError: must define a 'description' class variable",
     "NotImplementedError: must define 'process_description'"}

Loadable(class_path) == class_path \in DOMAIN Classes

ProcessLoadError == "ProcessClassNotFoundError"

NotFound == "ValueError: not found"

ExceptionClass(error) ==
    IF error \in {"ValueError: Job not found", "ValueError: Result not ready",
                  "ValueError: Job failed"}
    THEN "ValueError"
    ELSE error

\* the except clauses of the endpoint, in the order they are tried
ExceptClauses == <<"JobNotFoundError", "JobNotReadyError", "JobFailedError", "Exception">>

\* isinstance(exception, clause): the job errors are classes of their own, and
\* ValueError derives from Exception only
IsInstance(class, clause) == clause = "Exception" \/ class = clause

\* the first except clause that catches the exception
CaughtBy(class) ==
    ExceptClauses[CHOOSE i \in 1..Len(ExceptClauses) :
                    /\ IsInstance(class, ExceptClauses[i])
                    /\ \A j \in 1..(i - 1) : ~IsInstance(class, ExceptClauses[j])]

\* GET /jobs/{job_id}/results for an answer of process_manager.get_job_result
router_get_job_result(answer) ==
    IF answer.error = None
    THEN [kind |-> None, status |-> 200, title |-> None, detail |-> <<>>]
    ELSE LET clause == CaughtBy(ExceptionClass(answer.error)) IN
         CASE clause = "JobNotFoundError" ->
                [kind |-> clause, status |-> 404, title |-> "Job Not Found", detail |-> <<>>]
           [] clause = "JobNotReadyError" ->
                [kind |-> clause, status |-> 404, title |-> "Result Not Ready", detail |-> <<>>]
           [] clause = "JobFailedError" ->
                [kind |-> clause, status |-> 500, title |-> "Job Failed",
                 detail |-> <<answer.error, answer.body>>]
           [] OTHER ->
                [kind |-> clause, status |-> 500, title |-> "Internal Server Error",
                 detail |-> <<>>]

\* C24: get_job_result of a job whose task is still pending yields the
\* not-ready outcome, of a job whose task failed the failed outcome carrying the
\* underlying failure detail, and the two are different kinds of error for the
\* caller of the API.
C24_NotReadyAndFailedDistinguishable ==
    (resp.op = "get_job_result" /\ Truthy(Cache_get(store, job_key(resp.job))))
    => LET outcome == router_get_job_result(resp) IN
       /\ AsyncResult_state(resp.job) = "PENDING"
          => outcome.kind = "JobNotReadyError"
       /\ AsyncResult_state(resp.job) = "FAILURE"
          => /\ outcome.kind = "JobFailedError"
             /\ outcome.detail = <<resp.error, [message |-> AsyncResult_result(resp.job).status]>>

(***************************************************************************)
(* Claims about job ids in listings (checked under SpecListing)            *)
(***************************************************************************)
\* the task ids of the jobs that have a record in the store
StoredJobIds == {j \in ListJobIds : Cache_get(store, job_key(j)) # Null}

\* a job id written with one of the cache's key prefixes in front
Prefixed(job_id) == {"job:" \o job_id, "process_results:job:" \o job_id,
                     "process_results:" \o job_id}

\* C25: every jobID in a job listing is the bare task id of a stored job; it
\* never carries the cache key prefix "process_results:" or "job:".
C25_ListedJobIdsBare ==
    (resp.op = "get_jobs")
    => \A k \in 1..Len(resp.body.jobs) :
          /\ resp.body.jobs[k].jobID \in StoredJobIds
          /\ \A j \in ListJobIds : resp.body.jobs[k].jobID \notin Prefixed(j)

\* C25 witness: a listing of all three stored jobs, each under its task id
C25_Witness ==
    /\ resp.op = "get_jobs"
    /\ Len(resp.body.jobs) = 3
    /\ {resp.body.jobs[k].jobID : k \in 1..3} = {"1", "2", "3"}

(***************************************************************************)
(* Claims about the life of a job (checked under Spec)                     *)
(***************************************************************************)
\* the position of a status in accepted -> running -> {successful | failed}
StatusRank(status) ==
    CASE status = "accepted" -> 0
      [] status = "running" -> 1
      [] OTHER -> 2

Terminal(status) == status \in {"successful", "failed"}

\* status "later" may be observed after status "earlier" was
Follows(earlier, later) ==
    /\ StatusRank(later) >= StatusRank(earlier)
    /\ Terminal(earlier) => later = earlier

\* C26: the status observed for one job id follows accepted -> running ->
\* {successful | failed}: a poll never reports a status that lies before the one
\* execute_process reported for the job or the one recorded for it, and once
\* one of these is terminal the poll reports that same terminal status.
C26_StatusNeverGoesBack ==
    \A i \in 1..Len(calls) :
        (/\ calls[i].jobID # None
         /\ resp.op = "get_job_status"
         /\ resp.error = None
         /\ resp.job = calls[i].jobID)
        => /\ Follows(calls[i].body.status, resp.body.status)
           /\ JobRecord(i) # Null => Follows(JobRecord(i).status, resp.body.status)

\* call i was an async miss: its job is an execute_process task
AsyncMiss(i) == calls[i].jobID # None /\ calls[i].mode = "async" /\ calls[i].outcome = "miss"

\* C27: once the worker has completed the task of an async execution, the job's
\* stored record is no longer "accepted", and after a successful completion
\* the request's fingerprint key holds the result.
C27_WorkerCompletionRecorded ==
    \A i \in 1..Len(calls) :
        (AsyncMiss(i) /\ WorkerCompleted(i))
        => /\ JobRecord(i) # Null
           /\ JobRecord(i).status # "accepted"
           /\ tasks[TaskIndex(calls[i].jobID)].state = "SUCCESS"
              => Cache_get(store, celery_key(TaskOf(i))) =
                    tasks[TaskIndex(calls[i].jobID)].retval.result

\* C28: one execute_process call performs at most one queue submission
\* (send_task), whether it ends as a cache hit, a sync miss or an async miss.
C28_AtMostOneSubmissionPerCall ==
    \A i \in 1..Len(calls) : calls[i].sent <= 1

\* the fingerprint writes handed to the queue: the store_result tasks
\* SyncExecutionStrategy.execute sends, each naming a key and the value for it
FingerprintWrites == {i \in 1..Len(tasks) : tasks[i].name = "store_result"}

\* C29: fingerprint writes are idempotent: any two writes to the same
\* fingerprint key carry the same value, whatever processes are registered and
\* however the executions interleave.
C29_FingerprintWritesAgree ==
    \A i, j \in FingerprintWrites :
        tasks[i].payload.celery_key = tasks[j].payload.celery_key
        => tasks[i].payload.result = tasks[j].payload.result

\* the job ids execute_process has returned
ReturnedJobIds == {calls[i].jobID : i \in 1..Len(calls)} \ {None}

\* the step being taken is a delete_job of that job id
DeleteOf(job_id) == resp'.op = "delete_job" /\ resp'.job = job_id

\* C30: every job id execute_process returns (sync miss, async miss or cache
\* hit) has a job record in the store when the call returns, and no step other
\* than a delete_job of that id removes the record of a returned job.
C30_ReturnedJobsKeepRecord ==
    /\ [](\A i \in 1..Len(calls) : JustReturned(i) => JobRecord(i) # Null)
    /\ [][\A job_id \in ReturnedJobIds :
            (Cache_get(store, job_key(job_id)) # Null /\ ~DeleteOf(job_id))
            => Cache_get(store', job_key(job_id)) # Null]_vars

\* C30 witness: two calls have returned, one answered from the cache and one
\* executed, the worker has finished the first job's task, and a poll of the
\* first job still finds its record
C30_Witness ==
    /\ Len(calls) = 2
    /\ {calls[1].outcome, calls[2].outcome} = {"hit", "miss"}
    /\ JobRecord(1) # Null
    /\ JobRecord(2) # Null
    /\ WorkerCompleted(1)
    /\ resp.op = "get_job_status"
    /\ resp.job = calls[1].jobID
    /\ resp.error = None

(***************************************************************************)
(* The cache seen from both sides: stored values of every kind, a process  *)
(* whose execute raises, lookups by the worker and the job listing         *)
(***************************************************************************)
\* what may lie under the fingerprint key of InA: a result of procs_Upper, or
\* a result that is empty or falsy in Python
StoredValues ==
    {execute("procs_Upper", InA), Obj(<<>>), Arr(<<>>), Num("0"), Str("\"\"")}

CacheStores ==
    {<<>>} \cup
    {[k \in {make_key(hash_dict(CalculationTask(InA, NoOutputs, "raw")))} |-> v] :
        v \in StoredValues}

CacheRequests ==
    {Request("upper", InA, NoOutputs, "async"),
     Request("echo", InA, NoOutputs, "sync"),
     Request("fail", InA, NoOutputs, "sync"),
     Request("fail", InA, NoOutputs, "async")}

CacheInit ==
    /\ registry = InitialRegistry
    /\ store \in CacheStores
    /\ tasks = <<>>
    /\ calls = <<>>
    /\ execLog = <<>>
    /\ resp = NoResp
    /\ fpTask = <<NoTask, NoTask>>
    /\ fpKey = <<>>

\* the steps of the worker
WorkerNext ==
    \/ \E i \in 1..Len(tasks) : WorkerCheckCache(i)
    \/ \E i \in 1..Len(tasks) : WorkerFindResult(i)
    \/ \E i \in 1..Len(tasks) : WorkerExecuteProcess(i)
    \/ \E i \in 1..Len(tasks) : WorkerUnknownTask(i)

CacheNext ==
    \/ \E request \in CacheRequests :
            ExecuteProcess(request.process_id, request.data, request.mode)
    \/ \E i \in 1..Len(calls) : check_cache_hit(i)
    \/ \E i \in 1..Len(calls) : AsyncExecutionStrategy_execute(i)
    \/ \E i \in 1..Len(calls) : SyncExecutionStrategy_execute(i)
    \/ WorkerNext
    \/ \E job_id \in KnownJobIds : GetJobStatus(job_id)
    \/ GetJobs(MaxLimit, 0)

SpecCache == CacheInit /\ [][CacheNext]_vars

\* the worker is fair: a task that has been submitted is eventually processed
SpecCacheFair == SpecCache /\ WF_vars(WorkerNext)

(***************************************************************************)
(* Claims about the cache (checked under SpecCache)                        *)
(***************************************************************************)
\* the redis keys a job listing asks for
IsJobKey(k) == glob_match(make_key(<<"job", ":", "*">>), k)

\* the redis keys the fingerprints of the requests are looked up under
ResultKeys ==
    {make_key(celery_key(CalculationTask(r.data.inputs, NoOutputs, r.data.response))) :
        r \in CacheRequests}

\* a stored value that is a job status record
IsJobRecord(v) == "jobID" \in DOMAIN v

\* the tasks in which the worker has looked a fingerprint up
FingerprintLookups ==
    {i \in 1..Len(tasks) :
        tasks[i].consumed /\ tasks[i].name \in {"check_cache", "find_result_in_cache"}}

\* C31: results and job records live in disjoint key namespaces of the one
\* store: no key is both a result key and a job key, a job listing (keys
\* "job:*") enumerates exactly the job records and never a result, and a
\* fingerprint lookup never returns a job record.
C31_ResultAndJobKeysDisjoint ==
    /\ \A k \in DOMAIN store :
          /\ ~(k \in ResultKeys /\ IsJobKey(k))
          /\ IsJobKey(k) <=> IsJobRecord(store[k])
    /\ resp.op = "get_jobs"
       => {resp.body.jobs[n] : n \in 1..Len(resp.body.jobs)} =
              {store[k] : k \in {j \in DOMAIN store : IsJobRecord(store[j])}}
    /\ \A i \in FingerprintLookups : ~IsJobRecord(tasks[i].retval.result)

\* C31 witness: the store holds a result and two job records, the worker has
\* found the result under its fingerprint, and a listing shows the two jobs
C31_Witness ==
    /\ resp.op = "get_jobs"
    /\ Len(resp.body.jobs) = 2
    /\ \E k \in DOMAIN store : k \in ResultKeys
    /\ \E i \in FingerprintLookups :
          /\ tasks[i].name = "find_result_in_cache"
          /\ tasks[i].retval.result # Null

(***************************************************************************)
(* Claims about the order of listings                                      *)
(***************************************************************************)
\* C32: get_process_ids returns all currently registered ids, in an order that
\* is stable across calls: two calls with no registration in between return
\* the same sequence.
C32_ListIdsStable ==
    [][/\ resp'.op = "get_process_ids"
          => {resp'.body.ids[n] : n \in 1..Len(resp'.body.ids)} = DOMAIN registry'
       /\ (resp.op = "get_process_ids" /\ resp'.op = "get_process_ids")
          => resp'.body.ids = resp.body.ids]_vars

(***************************************************************************)
(* Claims about stored records and cached results (checked under Spec)     *)
(***************************************************************************)
\* the job records in the store
StoredJobRecords == {store[k] : k \in {j \in DOMAIN store : IsJobRecord(store[j])}}

OwnResult(i) == execute(get_process(calls[i].process_id).cls, calls[i].inputs)

\* C34: a result served from the cache for a request (P, I) was produced by
\* executing P on I: a result cached by running another process Q on the same
\* inputs is never reported as a cache hit for P.
C34_HitServesOwnResult ==
    \A i \in 1..Len(calls) :
        calls[i].outcome = "hit"
        => Cache_get(store, celery_key(TaskOf(i))) = OwnResult(i)


\* the execute_process messages on the broker whose process can be loaded
ExecuteMessages ==
    {t \in 1..Len(tasks) : /\ tasks[t].name = "execute_process"
                           /\ get_process(tasks[t].process_id).ok}

\* C35: orchestrator and worker agree on the key: for every async request, what
\* on_success stores for the message the worker received, when the process's
\* execute succeeds, lies under the fingerprint key the orchestrator looks up
\* for a later request with the same inputs.
C35_WorkerKeyIsLookupKey ==
    \A t \in ExecuteMessages :
        LET retval == execute(get_process(tasks[t].process_id).cls, tasks[t].payload.inputs)
            later == CalculationTask(tasks[t].payload.inputs, tasks[t].payload.outputs,
                                     tasks[t].payload.response)
        IN  Cache_get(on_success(store, retval, tasks[t]), celery_key(later)) = retval


\* the check_cache messages the worker has answered
AnsweredChecks ==
    {t \in 1..Len(tasks) : tasks[t].name = "check_cache" /\ tasks[t].consumed}

\* the entry of the result cache a check_cache message asks about
CheckedKey(t) ==
    make_key(celery_key(CalculationTask(tasks[t].payload.inputs, tasks[t].payload.outputs,
                                        tasks[t].payload.response)))

\* C36: check_cache reports HIT exactly when a value is stored under the
\* request's fingerprint key and MISS exactly when none is, whatever the stored
\* value (an empty mapping, an empty list, 0 and an empty string included).
C36_HitIffStored ==
    \A t \in AnsweredChecks :
        /\ tasks[t].retval.status = "HIT" <=> CheckedKey(t) \in DOMAIN store
        /\ tasks[t].retval.status = "MISS" <=> CheckedKey(t) \notin DOMAIN store


\* call i asks for a process whose execute raises on the call's inputs
Raising(i) ==
    /\ get_process(calls[i].process_id).ok
    /\ execute_raises(get_process(calls[i].process_id).cls, calls[i].inputs)

\* the invocations of execute logged for the request of call i
Executions(i) ==
    {n \in 1..Len(execLog) :
        execLog[n] = <<get_process(calls[i].process_id).cls, celery_key(TaskOf(i))>>}

\* this step is an execution that fails: the sync strategy's execute raising,
\* or the worker finishing an execute_process message as FAILURE
ExecutionFails ==
    \/ \E i \in 1..Len(calls) :
          /\ Raising(i)
          /\ calls[i].mode = "sync"
          /\ calls[i].outcome = "pending"
          /\ calls'[i].outcome = "error"
    \/ \E t \in 1..Len(tasks) :
          /\ tasks[t].name = "execute_process"
          /\ Queued(t)
          /\ tasks'[t].state = "FAILURE"

\* C37: a failed execution never populates the result cache: the step in which
\* execute raises (sync strategy) or the worker's task fails writes nothing to
\* the cache, so a later identical request is answered MISS by check_cache, is
\* not served from the cache and is executed again.
C37_FailureNotCached ==
    /\ [][ExecutionFails => store' = store]_vars
    /\ [](\A i, j \in 1..MaxCalls :
            (/\ i < j
             /\ j <= Len(calls)
             /\ Raising(i)
             /\ SameRequest(i, j)
             /\ calls[i].mode = "sync"
             /\ calls[i].outcome = "error"
             /\ calls[j].phase = "done")
            => /\ tasks[calls[j].check].retval.status = "MISS"
               /\ calls[j].outcome # "hit"
               /\ calls[j].mode = "sync" => /\ calls[j].outcome = "error"
                                            /\ Cardinality(Executions(j)) >= 2)

\* C37 witness: the same raising sync request made twice, both attempts run
\* execute, both fail, and nothing lies under the request's fingerprint key
C37_Witness ==
    /\ Len(calls) >= 2
    /\ Raising(1)
    /\ SameRequest(1, 2)
    /\ calls[1].mode = "sync" /\ calls[1].outcome = "error"
    /\ calls[2].mode = "sync" /\ calls[2].outcome = "error"
    /\ Cardinality(Executions(2)) = 2
    /\ make_key(celery_key(TaskOf(1))) \notin DOMAIN store


\* the status a client polling the job of call i is given by get_job_status
ObservedStatus(i) ==
    IF get_job_status(calls[i].jobID).error = None
    THEN get_job_status(calls[i].jobID).body.status
    ELSE None

\* call i is an async request that was accepted: its process is registered and
\* loadable, its inputs passed validation, and a job id was returned
AcceptedAsync(i) ==
    /\ i <= Len(calls)
    /\ calls[i].mode = "async"
    /\ calls[i].phase = "done"
    /\ calls[i].outcome = "miss"
    /\ get_process(calls[i].process_id).ok

\* C38: with a worker that eventually processes every submitted task, every
\* accepted async job eventually shows a terminal status, and that status is
\* "successful" whenever the process's execute succeeds on the job's inputs.
C38_AcceptedJobsFinish ==
    \A i \in 1..MaxCalls :
        AcceptedAsync(i)
        ~> /\ AcceptedAsync(i)
           /\ ObservedStatus(i) \in {"successful", "failed"}
           /\ ~Raising(i) => ObservedStatus(i) = "successful"


\* the job ids on the page a get_jobs response carries
PageIds(r) == {r.body.jobs[n].jobID : n \in 1..Len(r.body.jobs)}

\* this step follows the 'next' cursor of the page just returned: get_jobs again,
\* same limit, the offset the cursor names, and the job records as they were
FollowsNext ==
    /\ resp.op = "get_jobs"
    /\ resp'.op = "get_jobs"
    /\ resp.body.next # NoLink
    /\ resp'.body.limit = resp.body.next.limit
    /\ resp'.body.offset = resp.body.next.offset
    /\ store' = store

\* C39: while the job records are unchanged, following the 'next' cursors of
\* get_jobs from offset 0 with a fixed limit visits every job record exactly
\* once: a page and the page its cursor leads to share no job, and when the
\* walk is those two pages (first at offset 0, the second without a cursor)
\* they hold every stored job record.
C39_CursorWalkVisitsEachOnce ==
    [][FollowsNext
       => /\ PageIds(resp) \cap PageIds(resp') = {}
          /\ (resp.body.offset = 0 /\ resp'.body.next = NoLink)
             => PageIds(resp) \cup PageIds(resp') = StoredJobIds]_vars

====
